---- MODULE Spec2Model ----
(***************************************************************************)
(* COBS encoder and decoder of src/src/lib.rs as a state machine.          *)
(*                                                                         *)
(* A behaviour is one differential run over one input: the unchecked entry *)
(* point is called first (only when its documented precondition holds),    *)
(* then the checked entry point on the same input and a fresh destination, *)
(* and, after a successful encode, the frame is handed to the decoder the  *)
(* way fuzz/fuzz_targets/roundtrip.rs does.  The loops of encode_unsafe    *)
(* and decode_unsafe advance one iteration per step.                       *)
(*                                                                         *)
(* Byte slices are sequences; the source's 0-based index i is element i+1. *)
(***************************************************************************)
EXTENDS Integers, Sequences, FiniteSets

VARIABLES
    fn,          \* the entry point being run
    pc,          \* position inside the running function
    data,        \* the source slice of the running call
    dst,         \* the destination slice of the running call
    fill,        \* the byte the destination was allocated with
    marker_pos,  \* encode_unsafe: index of the open chunk's marker slot
    output_pos,  \* encode_unsafe / decode_unsafe: output cursor
    run_length,  \* encode_unsafe: u8 length counter of the open chunk
    k,           \* encode_unsafe: index of the next payload byte of `for &b in data`
    i,           \* decode_unsafe: input cursor
    marker,      \* decode_unsafe: marker of the chunk being consumed
    rem,         \* decode_unsafe: iterations left of `for _ in 1..marker`
    result,      \* value returned by the running call
    hi,          \* highest destination index written by the running call, -1 if none
    prev,        \* outcome of the unchecked call on the same input
    payload,     \* the payload whose frame is being decoded
    rt,          \* the running decode is the round trip of `payload`
    sweep        \* progress of a caller that encodes every payload of one length

vars == <<fn, pc, data, dst, fill, marker_pos, output_pos, run_length, k, i,
          marker, rem, result, hi, prev, payload, rt, sweep>>

(***************************************************************************)
(* Bounds of the explored inputs.                                          *)
(***************************************************************************)
MaxShort == 3       \* payloads and frames up to this length are exhaustive
MaxSegs == 2        \* long payloads: number of concatenated segments
MaxChunks == 2      \* long frames: number of concatenated chunks
MaxSweep == 4       \* lengths up to this are swept over every zero/non-zero pattern

(***************************************************************************)
(* Program constants.                                                      *)
(***************************************************************************)
ChunkSpan == 254    \* divisor of encode_buffer
FullMarker == 255   \* 0xff, the marker of a full chunk
ByteMod == 256      \* u8 arithmetic

Max(a, b) == IF a >= b THEN a ELSE b

DivCeil(a, b) == (a + b - 1) \div b

\* slice[idx] read with get_unchecked
At(s, idx) == s[idx + 1]

\* *slice.get_unchecked_mut(idx) = v; a store outside the slice leaves it alone
Put(s, idx, v) == IF idx + 1 \in DOMAIN s THEN [s EXCEPT ![idx + 1] = v] ELSE s

\* vec![fill; n]
Alloc(n, f) == [j \in 1..n |-> f]

\* a sizing that counts the leading marker only
encode_buffer_NoOverhead(size) == size + 1

encode_buffer(size) == size + DivCeil(size, ChunkSpan) + 1

\* a sizing that forgets the marker byte
decode_buffer_Same(size) == size

\* defined for size > 0 only; the source panics on 0
decode_buffer(size) == size - 1

(***************************************************************************)
(* Return values.                                                          *)
(***************************************************************************)
NoResult == [kind |-> "none"]
Ok(n) == [kind |-> "Ok", val |-> n]
Ret(n) == [kind |-> "usize", val |-> n]
BufferTooSmall(have, want) == [kind |-> "BufferTooSmall", have |-> have, want |-> want]
EmptyInput == [kind |-> "EmptyInput"]
ZeroMarker(at) == [kind |-> "ZeroMarker", at |-> at]
ZeroBinary(at) == [kind |-> "ZeroBinary", at |-> at]
ChunkOverflow(at, m, len) == [kind |-> "ChunkOverflow", at |-> at, marker |-> m, len |-> len]

NoRun == [result |-> NoResult, dst |-> <<>>]

NoSweep == [no |-> -1, longest |-> 0, closed |-> FALSE]

(***************************************************************************)
(* Inputs.                                                                 *)
(***************************************************************************)
ShortBytes == {0, 1, 2, 3, FullMarker}
FillBytes == {0, 170}

\* n nonzero bytes 1, 2, ..., 255, 1, ...
Run(n) == [j \in 1..n |-> ((j - 1) % FullMarker) + 1]

ShortSeqs == UNION {[1..n -> ShortBytes] : n \in 0..MaxShort}

Segments == {<<0>>, Run(1), Run(ChunkSpan - 1), Run(ChunkSpan)}

RECURSIVE Concats(_, _)
Concats(parts, n) ==
    IF n = 0 THEN {<<>>}
    ELSE LET shorter == Concats(parts, n - 1)
         IN  shorter \cup {s \o p : s \in shorter, p \in parts}

LongPayloads == {p \in Concats(Segments, MaxSegs) : Len(p) > MaxShort}

\* the payloads of tests::test_roundtrip_no_zeros and test_roundtrip_with_zeros
TestPayloads == {<<1, 2, 3, 4, 5>>, <<0, 1, 0, 2, 0, 0, 3>>}

\* a chunk: marker m followed by m-1 nonzero bytes
Chunk(m) == <<m>> \o Run(m - 1)

Chunks == {Chunk(1), Chunk(2), Chunk(ChunkSpan), Chunk(FullMarker)}

WellFormedLong == {f \in Concats(Chunks, MaxChunks) : Len(f) > MaxShort}

\* a well-formed frame, and the same frame cut short, with its last byte
\* zeroed, and with a zero byte appended
Damaged(f) ==
    {f, SubSeq(f, 1, Len(f) - 1), [f EXCEPT ![Len(f)] = 0], Append(f, 0)}

LongFrames == UNION {Damaged(f) : f \in WellFormedLong}

\* a frame whose marker declares more bytes than remain
TruncatedFrames == {<<5, 1, 2>>}

EncodeInputs ==
    {[data |-> p, cap |-> c, fill |-> f] :
        p \in ShortSeqs, c \in 0..(encode_buffer(MaxShort) + 1), f \in FillBytes}
    \cup UNION {{[data |-> p, cap |-> encode_buffer(Len(p)) - d, fill |-> f] :
                        d \in {0, 1}, f \in FillBytes} :
                    p \in LongPayloads \cup TestPayloads}

DecodeInputs ==
    {[data |-> p, cap |-> c, fill |-> f] :
        p \in ShortSeqs, c \in 0..MaxShort, f \in FillBytes}
    \cup UNION {{[data |-> p, cap |-> decode_buffer(Len(p)) - d, fill |-> f] :
                        d \in {0, 1}, f \in FillBytes} :
                    p \in LongFrames \cup TruncatedFrames}

\* the documented preconditions of the unchecked entry points
EncodePre(d, cap) == cap >= encode_buffer(Len(d))
DecodePre(d, cap) == Len(d) > 1 => cap >= decode_buffer(Len(d))

Locals0 ==
    /\ marker_pos = 0
    /\ output_pos = 0
    /\ run_length = 0
    /\ k = 0
    /\ i = 0
    /\ marker = 0
    /\ rem = 0

Init ==
    /\ pc = "call"
    /\ result = NoResult
    /\ hi = -1
    /\ prev = NoRun
    /\ payload = <<>>
    /\ rt = FALSE
    /\ sweep = NoSweep
    /\ Locals0
    /\ \/ \E in \in EncodeInputs :
            /\ data = in.data
            /\ dst = Alloc(in.cap, in.fill)
            /\ fill = in.fill
            /\ fn = IF EncodePre(in.data, in.cap) THEN "encode_unsafe" ELSE "encode"
       \/ \E in \in DecodeInputs :
            /\ data = in.data
            /\ dst = Alloc(in.cap, in.fill)
            /\ fill = in.fill
            /\ fn = IF DecodePre(in.data, in.cap) THEN "decode_unsafe" ELSE "decode"

(***************************************************************************)
(* Returning from the unchecked cores: encode wraps the length in Ok,      *)
(* decode passes the Result through.                                       *)
(***************************************************************************)
\* the capacity is returned in place of the length
EncodeReturn_Capacity(n) ==
    IF fn = "encode" THEN Ok(encode_buffer(Len(data))) ELSE Ret(n)

EncodeReturn(n) == IF fn = "encode" THEN Ok(n) ELSE Ret(n)

\* the chunk is closed only once the counter has wrapped
ChunkFull_OnWrap(rl) == rl = 0

\* the chunk is closed one byte early
ChunkFull_Early(rl) == rl = ChunkSpan

\* line 88: an entire chunk was non-zero
ChunkFull(rl) == rl = FullMarker

\* the trailing zero of the payload is not looked at
KeepLastChunk_NoZero(rl, last_byte) == rl > 1

\* the cursor is never retracted
KeepLastChunk_Always(rl, last_byte) == TRUE

\* line 104: the open chunk is written out (otherwise the cursor is retracted)
KeepLastChunk(rl, last_byte) == rl > 1 \/ last_byte = 0

\* the overflow test is off by one
Overflows_OffByOne(ii, m, len) == ii + m > len

\* a chunk may run one byte past the end of the frame
Overflows_Late(ii, m, len) == ii + m - 1 > len + 1

\* line 167: the marker defines an overflowing chunk; ii is the cursor past the marker
Overflows(ii, m, len) == ii + m - 1 > len

\* a zero after full chunks too
NeedsSentinel_AnyMarker(ii, m, len) == ii < len

\* a zero after the last chunk too
NeedsSentinel_AtEnd(ii, m, len) == m # FullMarker

\* line 185: a partial chunk with frame bytes left is followed by a zero
NeedsSentinel(ii, m, len) == ii < len /\ m # FullMarker

\* store into the destination, keeping track of the highest index stored to
Store(idx, v) ==
    /\ dst' = Put(dst, idx, v)
    /\ hi' = Max(hi, idx)

(***************************************************************************)
(* encode                                                                  *)
(***************************************************************************)
encode ==
    /\ pc = "call"
    /\ fn = "encode"
    /\ LET want == encode_buffer(Len(data))
       IN  IF Len(dst) < want
           THEN /\ result' = BufferTooSmall(Len(dst), want)
                /\ pc' = "done"
           ELSE /\ result' = result
                /\ pc' = "encode_unsafe"
    /\ UNCHANGED <<fn, data, dst, fill, marker_pos, output_pos, run_length, k, i,
                   marker, rem, hi, prev, payload, rt, sweep>>

\* lines 64-78: the empty blob, or the loop's initial state
encode_unsafe ==
    /\ \/ pc = "call" /\ fn = "encode_unsafe"
       \/ pc = "encode_unsafe"
    /\ IF Len(data) = 0
       THEN /\ Store(0, 1)
            /\ result' = EncodeReturn(1)
            /\ pc' = "done"
            /\ UNCHANGED <<marker_pos, output_pos, run_length, k>>
       ELSE /\ marker_pos' = 0
            /\ output_pos' = 1
            /\ run_length' = 1
            /\ k' = 0
            /\ pc' = "enc_loop"
            /\ UNCHANGED <<dst, hi, result>>
    /\ UNCHANGED <<fn, data, fill, i, marker, rem, prev, payload, rt, sweep>>

\* lines 80-101: one iteration of `for &b in data`
EncodeByte ==
    /\ pc = "enc_loop"
    /\ k < Len(data)
    /\ LET b == At(data, k)
           grown == (run_length + 1) % ByteMod
       IN  IF b > 0
           THEN IF ChunkFull(grown)
                THEN /\ dst' = Put(Put(dst, output_pos, b), marker_pos, grown)
                     /\ hi' = Max(hi, Max(output_pos, marker_pos))
                     /\ marker_pos' = output_pos + 1
                     /\ output_pos' = output_pos + 2
                     /\ run_length' = 1
                ELSE /\ Store(output_pos, b)
                     /\ output_pos' = output_pos + 1
                     /\ run_length' = grown
                     /\ marker_pos' = marker_pos
           ELSE /\ Store(marker_pos, run_length)
                /\ marker_pos' = output_pos
                /\ output_pos' = output_pos + 1
                /\ run_length' = 1
    /\ k' = k + 1
    /\ UNCHANGED <<fn, pc, data, fill, i, marker, rem, result, prev, payload, rt, sweep>>

\* lines 102-111: terminate the unfinished chunk and return
EncodeFinish ==
    /\ pc = "enc_loop"
    /\ k = Len(data)
    /\ LET last_byte == At(data, Len(data) - 1)
       IN  IF KeepLastChunk(run_length, last_byte)
           THEN /\ Store(marker_pos, run_length)
                /\ output_pos' = output_pos
                /\ result' = EncodeReturn(output_pos)
           ELSE /\ output_pos' = output_pos - 1
                /\ result' = EncodeReturn(output_pos - 1)
                /\ UNCHANGED <<dst, hi>>
    /\ pc' = "done"
    /\ UNCHANGED <<fn, data, fill, marker_pos, run_length, k, i, marker, rem,
                   prev, payload, rt, sweep>>

(***************************************************************************)
(* decode                                                                  *)
(***************************************************************************)
decode ==
    /\ pc = "call"
    /\ fn = "decode"
    /\ IF Len(data) = 0
       THEN /\ result' = EmptyInput
            /\ pc' = "done"
       ELSE IF Len(data) > 1 /\ Len(dst) < decode_buffer(Len(data))
       THEN /\ result' = BufferTooSmall(Len(dst), decode_buffer(Len(data)))
            /\ pc' = "done"
       ELSE /\ result' = result
            /\ pc' = "decode_unsafe"
    /\ UNCHANGED <<fn, data, dst, fill, marker_pos, output_pos, run_length, k, i,
                   marker, rem, hi, prev, payload, rt, sweep>>

\* lines 141-156: the empty blob, the empty text, or the loop's initial state
decode_unsafe ==
    /\ \/ pc = "call" /\ fn = "decode_unsafe"
       \/ pc = "decode_unsafe"
    /\ IF Len(data) = 0
       THEN /\ result' = EmptyInput
            /\ pc' = "done"
            /\ UNCHANGED <<output_pos, i>>
       ELSE IF Len(data) = 1 /\ At(data, 0) = 1
       THEN /\ result' = Ok(0)
            /\ pc' = "done"
            /\ UNCHANGED <<output_pos, i>>
       ELSE /\ output_pos' = 0
            /\ i' = 0
            /\ pc' = "dec_loop"
            /\ result' = result
    /\ UNCHANGED <<fn, data, dst, fill, marker_pos, run_length, k, marker, rem,
                   hi, prev, payload, rt, sweep>>

\* lines 158-173: the loop test, the marker and the overflow test
ReadMarker ==
    /\ pc = "dec_loop"
    /\ IF i < Len(data)
       THEN LET m == At(data, i)
            IN  IF m = 0
                THEN /\ result' = ZeroMarker(i)
                     /\ pc' = "done"
                     /\ UNCHANGED <<i, marker, rem>>
                ELSE IF Overflows(i + 1, m, Len(data))
                THEN /\ result' = ChunkOverflow((i + 1) - 1, m, Len(data))
                     /\ pc' = "done"
                     /\ i' = i + 1
                     /\ marker' = m
                     /\ rem' = rem
                ELSE /\ i' = i + 1
                     /\ marker' = m
                     /\ rem' = m - 1
                     /\ pc' = "dec_copy"
                     /\ result' = result
       ELSE /\ result' = Ok(output_pos)
            /\ pc' = "done"
            /\ UNCHANGED <<i, marker, rem>>
    /\ UNCHANGED <<fn, data, dst, fill, marker_pos, output_pos, run_length, k,
                   hi, prev, payload, rt, sweep>>

\* lines 175-183: one iteration of `for _ in 1..marker`
CopyChunk ==
    /\ pc = "dec_copy"
    /\ rem > 0
    /\ LET b == At(data, i)
       IN  IF b = 0
           THEN /\ result' = ZeroBinary(i)
                /\ pc' = "done"
                /\ UNCHANGED <<dst, hi, output_pos, i, rem>>
           ELSE /\ Store(output_pos, b)
                /\ output_pos' = output_pos + 1
                /\ i' = i + 1
                /\ rem' = rem - 1
                /\ UNCHANGED <<result, pc>>
    /\ UNCHANGED <<fn, data, fill, marker_pos, run_length, k, marker, prev,
                   payload, rt, sweep>>

\* lines 184-188: the zero that follows a partial chunk
MaybeInsertSentinel ==
    /\ pc = "dec_copy"
    /\ rem = 0
    /\ IF NeedsSentinel(i, marker, Len(data))
       THEN /\ Store(output_pos, 0)
            /\ output_pos' = output_pos + 1
       ELSE UNCHANGED <<dst, hi, output_pos>>
    /\ pc' = "dec_loop"
    /\ UNCHANGED <<fn, data, fill, marker_pos, run_length, k, i, marker, rem,
                   result, prev, payload, rt, sweep>>

(***************************************************************************)
(* The caller: the checked entry point after the unchecked one, and the    *)
(* decode of an encoded frame.                                             *)
(***************************************************************************)
Checked(f) == IF f = "encode_unsafe" THEN "encode" ELSE "decode"

\* the same input again, through the checked entry point, into a fresh buffer
CallChecked ==
    /\ pc = "done"
    /\ fn \in {"encode_unsafe", "decode_unsafe"}
    /\ prev' = [result |-> result, dst |-> dst]
    /\ fn' = Checked(fn)
    /\ dst' = Alloc(Len(dst), fill)
    /\ pc' = "call"
    /\ result' = NoResult
    /\ hi' = -1
    /\ marker_pos' = 0
    /\ output_pos' = 0
    /\ run_length' = 0
    /\ k' = 0
    /\ i' = 0
    /\ marker' = 0
    /\ rem' = 0
    /\ UNCHANGED <<data, fill, payload, rt, sweep>>

\* fuzz_targets/roundtrip.rs: decode &enc_buf[..enc_len] into
\* vec![0u8; decode_buffer(enc_len)]
RoundTrip ==
    /\ pc = "done"
    /\ fn = "encode"
    /\ result.kind = "Ok"
    /\ payload' = data
    /\ rt' = TRUE
    /\ data' = SubSeq(dst, 1, result.val)
    /\ dst' = Alloc(IF result.val > 0 THEN decode_buffer(result.val) ELSE 0, fill)
    /\ fn' = "decode_unsafe"
    /\ prev' = NoRun
    /\ pc' = "call"
    /\ result' = NoResult
    /\ hi' = -1
    /\ marker_pos' = 0
    /\ output_pos' = 0
    /\ run_length' = 0
    /\ k' = 0
    /\ i' = 0
    /\ marker' = 0
    /\ rem' = 0
    /\ UNCHANGED <<fill, sweep>>

Next ==
    \/ encode
    \/ encode_unsafe
    \/ EncodeByte
    \/ EncodeFinish
    \/ decode
    \/ decode_unsafe
    \/ ReadMarker
    \/ CopyChunk
    \/ MaybeInsertSentinel
    \/ CallChecked
    \/ RoundTrip

Spec == Init /\ [][Next]_vars

(***************************************************************************)
(* A caller that encodes, one after the other, the payloads of one length  *)
(* into encode_buffer(len) bytes and keeps the longest frame length        *)
(* returned.  encode looks at a byte only to tell zero from non-zero, so   *)
(* up to MaxSweep bytes the payloads are all zero/non-zero patterns; the   *)
(* lengths around a full chunk are swept over the zero-free payload and    *)
(* the payloads with a single zero among the first or the last MaxSweep    *)
(* bytes.                                                                  *)
(***************************************************************************)
SweepLens == 0..MaxSweep \cup {ChunkSpan, ChunkSpan + 1}

RECURSIVE Pow2(_)
Pow2(n) == IF n = 0 THEN 1 ELSE 2 * Pow2(n - 1)

SweepCount(n) == IF n <= MaxSweep THEN Pow2(n) ELSE 2 * MaxSweep + 1

SweepPayload(n, no) ==
    IF n <= MaxSweep
    THEN [j \in 1..n |-> IF (no \div Pow2(j - 1)) % 2 = 1 THEN 0 ELSE Run(n)[j]]
    ELSE LET zero == IF no <= MaxSweep THEN no ELSE n + 1 - (no - MaxSweep)
         IN  [j \in 1..n |-> IF j = zero THEN 0 ELSE Run(n)[j]]

SweepInit ==
    /\ pc = "call"
    /\ fn = "encode"
    /\ result = NoResult
    /\ hi = -1
    /\ prev = NoRun
    /\ payload = <<>>
    /\ rt = FALSE
    /\ fill = 0
    /\ sweep = [no |-> 0, longest |-> 0, closed |-> FALSE]
    /\ Locals0
    /\ \E n \in SweepLens :
          /\ data = SweepPayload(n, 0)
          /\ dst = Alloc(encode_buffer(n), 0)

NextPayload ==
    /\ pc = "done"
    /\ fn = "encode"
    /\ sweep.no >= 0
    /\ ~sweep.closed
    /\ result.kind = "Ok"
    /\ LET n == Len(data)
           best == Max(sweep.longest, result.val)
       IN  IF sweep.no + 1 < SweepCount(n)
           THEN /\ sweep' = [no |-> sweep.no + 1, longest |-> best, closed |-> FALSE]
                /\ data' = SweepPayload(n, sweep.no + 1)
                /\ dst' = Alloc(encode_buffer(n), fill)
                /\ pc' = "call"
                /\ result' = NoResult
                /\ hi' = -1
                /\ marker_pos' = 0
                /\ output_pos' = 0
                /\ run_length' = 0
                /\ k' = 0
           ELSE /\ sweep' = [no |-> sweep.no, longest |-> best, closed |-> TRUE]
                /\ UNCHANGED <<data, dst, pc, result, hi, marker_pos, output_pos,
                               run_length, k>>
    /\ UNCHANGED <<fn, fill, i, marker, rem, prev, payload, rt>>

SweepNext ==
    \/ encode
    \/ encode_unsafe
    \/ EncodeByte
    \/ EncodeFinish
    \/ NextPayload

SpecSweep == SweepInit /\ [][SweepNext]_vars

(***************************************************************************)
(* One call of encode_unsafe or decode_unsafe on its own, from the call to *)
(* the return.  The call is synchronous straight-line code on one thread:  *)
(* once entered it keeps taking its next step, which is weak fairness of   *)
(* its steps.                                                              *)
(***************************************************************************)
CallInit == Init /\ fn \in {"encode_unsafe", "decode_unsafe"}

CallNext ==
    \/ encode_unsafe
    \/ EncodeByte
    \/ EncodeFinish
    \/ decode_unsafe
    \/ ReadMarker
    \/ CopyChunk
    \/ MaybeInsertSentinel

CallSpec == CallInit /\ [][CallNext]_vars /\ WF_vars(CallNext)

(***************************************************************************)
(* Reference definitions used by the properties.                           *)
(***************************************************************************)
IsEncode == fn \in {"encode", "encode_unsafe"}
IsDecode == fn \in {"decode", "decode_unsafe"}
Returned == pc = "done"
HasLen(r) == r.kind \in {"Ok", "usize"}
Fresh == Alloc(Len(dst), fill)
HasZero(s) == \E j \in 1..Len(s) : s[j] = 0
Least(S) == CHOOSE x \in S : \A y \in S : x <= y

\* a zero-free group as chunks; the last chunk is left out after a full chunk
\* that ends the final group
RECURSIVE EmitGroup(_, _)
EmitGroup(g, final) ==
    IF Len(g) >= ChunkSpan
    THEN <<FullMarker>> \o SubSeq(g, 1, ChunkSpan)
         \o (IF Len(g) = ChunkSpan /\ final
             THEN <<>>
             ELSE EmitGroup(SubSeq(g, ChunkSpan + 1, Len(g)), final))
    ELSE <<Len(g) + 1>> \o g

\* the payload split at its zero bytes, each group emitted in turn
RECURSIVE Canonical(_)
Canonical(p) ==
    LET zs == {j \in 1..Len(p) : p[j] = 0}
    IN  IF zs = {}
        THEN EmitGroup(p, TRUE)
        ELSE EmitGroup(SubSeq(p, 1, Least(zs) - 1), FALSE)
             \o Canonical(SubSeq(p, Least(zs) + 1, Len(p)))

\* chunks (a marker m and m-1 bytes) tile the frame from 0-based offset `at`
RECURSIVE Tiled(_, _)
Tiled(f, at) ==
    \/ at = Len(f)
    \/ /\ at < Len(f)
       /\ at + At(f, at) <= Len(f)
       /\ Tiled(f, at + At(f, at))

WellFormed(f) == Len(f) > 0 /\ ~HasZero(f) /\ Tiled(f, 0)

\* the data of each chunk, then a zero unless the chunk is the last one or full
RECURSIVE Unstuffed(_, _)
Unstuffed(f, at) ==
    LET m == At(f, at)
        body == SubSeq(f, at + 2, at + m)
    IN  IF at + m = Len(f)
        THEN body
        ELSE body \o (IF m # FullMarker THEN <<0>> ELSE <<>>) \o Unstuffed(f, at + m)

\* the first violation met walking the frame chunk by chunk from offset `at`
RECURSIVE FirstViolation(_, _)
FirstViolation(f, at) ==
    IF at >= Len(f) THEN [kind |-> "Ok"]
    ELSE LET m == At(f, at)
             zs == {j \in (at + 1)..(at + m - 1) : At(f, j) = 0}
         IN  IF m = 0 THEN ZeroMarker(at)
             ELSE IF at + m > Len(f) THEN ChunkOverflow(at, m, Len(f))
             ELSE IF zs # {} THEN ZeroBinary(Least(zs))
             ELSE FirstViolation(f, at + m)

(***************************************************************************)
(* C1. Round trip: encode into a destination of encode_buffer(len) bytes   *)
(* returns Ok(L), and decoding the first L bytes into decode_buffer(L)     *)
(* bytes returns Ok(len(payload)) with the payload in the destination.     *)
(***************************************************************************)
RoundTripHolds ==
    /\ (Returned /\ fn = "encode" /\ Len(dst) = encode_buffer(Len(data)))
          => result.kind = "Ok"
    /\ (Returned /\ IsDecode /\ rt)
          => /\ Len(dst) = decode_buffer(Len(data))
             /\ result = Ok(Len(payload))
             /\ SubSeq(dst, 1, Len(payload)) = payload

RoundTripWitness ==
    /\ Returned /\ fn = "decode" /\ rt
    /\ Len(payload) > ChunkSpan
    /\ HasZero(payload)
    /\ result = Ok(Len(payload))

(***************************************************************************)
(* C2. Sentinel freedom: run_length stays in 1..255, none of the first L   *)
(* bytes of an encoded frame is zero, and decoding encoder output never    *)
(* returns ZeroMarker or ZeroBinary.                                       *)
(***************************************************************************)
SentinelFree ==
    /\ pc = "enc_loop" => run_length \in 1..FullMarker
    /\ (Returned /\ IsEncode /\ HasLen(result))
          => \A j \in 1..result.val : dst[j] # 0
    /\ (Returned /\ IsDecode /\ rt)
          => result.kind \notin {"ZeroMarker", "ZeroBinary"}

SentinelFreeWitness ==
    /\ Returned /\ fn = "encode" /\ fill = 0
    /\ ~HasZero(data)
    /\ Len(data) = 2 * ChunkSpan
    /\ result = Ok(2 * FullMarker)

(***************************************************************************)
(* C3. Encode capacity: with a destination of encode_buffer(n) =           *)
(* n + ceil(n/254) + 1 bytes every index encode_unsafe stores to is below  *)
(* encode_buffer(n), and the returned length L has 1 <= L <=               *)
(* encode_buffer(n).                                                       *)
(***************************************************************************)
EncodeWithinCapacity ==
    (IsEncode /\ Len(dst) = encode_buffer(Len(data))) =>
        /\ hi < encode_buffer(Len(data))
        /\ (Returned /\ HasLen(result))
              => (1 <= result.val /\ result.val <= encode_buffer(Len(data)))

EncodeWithinCapacityWitness ==
    /\ Returned /\ fn = "encode_unsafe"
    /\ Len(dst) = encode_buffer(Len(data))
    /\ Len(data) = ChunkSpan + 1
    /\ ~HasZero(data)
    /\ hi = ChunkSpan + 2

(***************************************************************************)
(* C4. Decode capacity: for a non-empty frame of n bytes, well formed or   *)
(* not, no store of decode is at an index >= n - 1, and a returned length  *)
(* is <= n - 1.                                                            *)
(***************************************************************************)
DecodeWithinCapacity ==
    (IsDecode /\ Len(data) >= 1) =>
        /\ hi < Len(data) - 1
        /\ hi < decode_buffer(Len(data))
        /\ (Returned /\ result.kind = "Ok") => result.val <= Len(data) - 1

DecodeWithinCapacityWitness ==
    /\ Returned /\ fn = "decode"
    /\ Len(dst) = decode_buffer(Len(data))
    /\ result.kind = "ZeroBinary"
    /\ hi >= ChunkSpan

(***************************************************************************)
(* C5. decode_unsafe returns Ok exactly on the non-empty zero-free frames  *)
(* that chunks tile to the end, and otherwise the error of the first       *)
(* violation met from the left: EmptyInput, ZeroMarker{at},                *)
(* ChunkOverflow{at, marker, len} (before the chunk's bytes are looked     *)
(* at), ZeroBinary{at}.                                                    *)
(***************************************************************************)
ExactErrors ==
    (Returned /\ fn = "decode_unsafe") =>
        /\ result.kind = "Ok" <=> WellFormed(data)
        /\ Len(data) = 0 => result = EmptyInput
        /\ (Len(data) > 0 /\ result.kind # "Ok") => result = FirstViolation(data, 0)
        /\ data = <<0>> => result = ZeroMarker(0)
        /\ data = <<5, 1, 2>> => result = ChunkOverflow(0, 5, 3)
        /\ data = <<3, 1, 0>> => result = ZeroBinary(2)

ExactErrorsWitness ==
    /\ Returned /\ fn = "decode_unsafe"
    /\ data = <<1, 3, 0>>
    /\ result = ChunkOverflow(1, 3, 3)

(***************************************************************************)
(* C6. The checked entry points reject a destination that is too small     *)
(* with BufferTooSmall{have, want} whatever the input holds, decode        *)
(* rejects the empty frame with EmptyInput whatever the destination, a     *)
(* 1-byte frame is never rejected for capacity, and a rejected call        *)
(* leaves the destination as it was.                                       *)
(***************************************************************************)
CheckedRejects ==
    LET n == Len(data)
        need == n + (n \div ChunkSpan) + (IF n % ChunkSpan = 0 THEN 0 ELSE 1) + 1
    IN  /\ (Returned /\ fn = "encode" /\ Len(dst) < need)
              => /\ result = BufferTooSmall(Len(dst), need)
                 /\ dst = Fresh /\ hi = -1
        /\ (Returned /\ fn = "decode" /\ n > 1 /\ Len(dst) < n - 1)
              => /\ result = BufferTooSmall(Len(dst), n - 1)
                 /\ dst = Fresh /\ hi = -1
        /\ (Returned /\ fn = "decode" /\ n = 0)
              => /\ result = EmptyInput
                 /\ dst = Fresh /\ hi = -1
        /\ (Returned /\ fn = "decode" /\ n = 1)
              => result.kind # "BufferTooSmall"

CheckedRejectsWitness ==
    /\ Returned /\ fn = "decode"
    /\ result = BufferTooSmall(Len(dst), Len(data) - 1)
    /\ WellFormed(data)
    /\ Len(Unstuffed(data, 0)) <= Len(dst)

(***************************************************************************)
(* C7. With a destination that is large enough the checked and unchecked   *)
(* entry points agree: encode returns Ok(k) where encode_unsafe returns k, *)
(* decode returns what decode_unsafe returns, and the destinations hold    *)
(* the same bytes.                                                         *)
(***************************************************************************)
CheckedMatchesUnchecked ==
    /\ (Returned /\ fn = "encode" /\ Len(dst) >= encode_buffer(Len(data)))
          => /\ prev.result.kind = "usize"
             /\ result = Ok(prev.result.val)
             /\ dst = prev.dst
    /\ (Returned /\ fn = "decode" /\ Len(data) >= 1 /\ Len(dst) >= Len(data) - 1)
          => /\ prev.result.kind \notin {"none", "BufferTooSmall"}
             /\ result = prev.result
             /\ dst = prev.dst

CheckedMatchesUncheckedWitness ==
    /\ Returned /\ fn = "decode"
    /\ prev.result.kind = "ZeroBinary"
    /\ result = prev.result
    /\ hi >= 0
    /\ dst # Fresh

(***************************************************************************)
(* C8. encode produces the canonical frame: [0x01] for the empty payload,  *)
(* otherwise each zero-free group as its full chunks (0xFF and 254 bytes)  *)
(* followed by one chunk of the remaining bytes, which is left out for the *)
(* final group when that group is non-empty and a multiple of 254 long.    *)
(***************************************************************************)
CanonicalFrame ==
    (Returned /\ IsEncode /\ HasLen(result)) =>
        /\ SubSeq(dst, 1, result.val) = Canonical(data)
        /\ data = <<>> => SubSeq(dst, 1, result.val) = <<1>>
        /\ data = <<1, 2, 3, 4, 5>> => SubSeq(dst, 1, result.val) = <<6, 1, 2, 3, 4, 5>>
        /\ data = <<0, 1, 0, 2, 0, 0, 3>>
              => SubSeq(dst, 1, result.val) = <<1, 2, 1, 2, 2, 1, 2, 3>>
        /\ data = Run(ChunkSpan)
              => SubSeq(dst, 1, result.val) = <<FullMarker>> \o Run(ChunkSpan)
        /\ data = Run(ChunkSpan) \o <<1>>
              => SubSeq(dst, 1, result.val) = <<FullMarker>> \o Run(ChunkSpan) \o <<2, 1>>

CanonicalFrameWitness ==
    /\ Returned /\ fn = "encode"
    /\ data = Run(ChunkSpan)
    /\ result = Ok(FullMarker)
    /\ dst[FullMarker + 1] = fill

(***************************************************************************)
(* C9. On every well-formed frame, also those encode never produces, the   *)
(* decoded output is each chunk's marker-1 bytes followed by one zero      *)
(* exactly when the chunk is not the last and its marker is not 0xFF, and  *)
(* the returned length is the length of that output.                       *)
(***************************************************************************)
SentinelReinsertion ==
    (Returned /\ IsDecode /\ WellFormed(data) /\ Len(dst) >= Len(data) - 1) =>
        /\ result = Ok(Len(Unstuffed(data, 0)))
        /\ SubSeq(dst, 1, Len(Unstuffed(data, 0))) = Unstuffed(data, 0)

SentinelReinsertionWitness ==
    /\ Returned /\ fn = "decode_unsafe" /\ ~rt
    /\ data = Chunk(FullMarker) \o Chunk(2)
    /\ result = Ok(FullMarker)

(***************************************************************************)
(* C10. Capacity tightness.  As claimed: for every n the longest frame     *)
(* over the payloads of length n is encode_buffer(n) bytes long.           *)
(***************************************************************************)
LongestIsCapacity ==
    sweep.closed => sweep.longest = encode_buffer(Len(data))

(***************************************************************************)
(* C10, amended.  encode_buffer(n) is reached by the empty payload only:   *)
(* for n >= 1 no frame is longer than encode_buffer(n) - 1 =               *)
(* n + ceil(n/254), and the longest frame over the payloads of length n    *)
(* is exactly that long.                                                   *)
(***************************************************************************)
LongestIsCapacityLessOne ==
    LET n == Len(data)
        most == IF n = 0 THEN encode_buffer(0) ELSE encode_buffer(n) - 1
    IN  /\ (Returned /\ IsEncode /\ HasLen(result)) => result.val <= most
        /\ sweep.longest <= most
        /\ sweep.closed => sweep.longest = most
        /\ n >= 1 => most = n + DivCeil(n, ChunkSpan)

LongestIsCapacityLessOneWitness ==
    /\ sweep.closed
    /\ Len(data) = ChunkSpan
    /\ sweep.longest = FullMarker
    /\ encode_buffer(Len(data)) = FullMarker + 1

(***************************************************************************)
(* C11. decode_unsafe is a terminating single pass: every call returns;    *)
(* the input cursor grows on every iteration of the chunk loop and never   *)
(* passes the frame length; Ok is returned exactly when the loop test      *)
(* finds the cursor at the frame length after a completed chunk (the       *)
(* frame [0x01] returns Ok(0) before the loop, its one-byte chunk being    *)
(* the whole frame).  encode_unsafe returns after one iteration per        *)
(* payload byte.                                                           *)
(***************************************************************************)
InChunkLoop == pc \in {"dec_loop", "dec_copy"}

\* steps the chunk loop can still take: falls on every step of the loop
Remaining == 2 * (Len(data) - i) + (IF pc = "dec_copy" THEN 1 ELSE 0)

SinglePassState ==
    /\ IsDecode => (0 <= i /\ i <= Len(data))
    /\ (IsDecode /\ InChunkLoop) => (rem >= 0 /\ i + rem <= Len(data))
    /\ (IsDecode /\ Returned /\ result.kind = "Ok")
          => \/ i = Len(data) /\ rem = 0
             \/ data = <<1>> /\ i = 0 /\ result = Ok(0)
    /\ (IsDecode /\ Returned /\ result.kind \in {"ZeroMarker", "ZeroBinary"})
          => i < Len(data)
    /\ (IsDecode /\ Returned /\ result.kind = "ChunkOverflow")
          => (i - 1) + marker > Len(data)
    /\ pc = "enc_loop" => (0 <= k /\ k <= Len(data))
    /\ (IsEncode /\ Returned /\ HasLen(result)) => k = Len(data)

SinglePassStep ==
    /\ (pc = "dec_loop" /\ pc' = "dec_copy") => (i' = i + 1 /\ rem' = marker' - 1)
    /\ (pc = "dec_copy" /\ pc' = "dec_copy") => (i' = i + 1 /\ rem' = rem - 1)
    /\ (pc = "dec_copy" /\ pc' = "dec_loop") => (i' = i /\ rem = 0)
    /\ (InChunkLoop /\ InChunkLoop') => (Remaining' < Remaining /\ Remaining' >= 0)
    /\ (pc = "dec_loop" /\ i = Len(data)) => (pc' = "done" /\ result'.kind = "Ok")
    /\ (pc = "dec_loop" /\ i < Len(data) /\ pc' = "done") => result'.kind # "Ok"
    /\ (pc = "dec_copy" /\ pc' = "done") => result'.kind = "ZeroBinary"
    /\ (pc = "enc_loop" /\ pc' = "enc_loop") => (k < Len(data) /\ k' = k + 1)
    /\ (pc = "enc_loop" /\ pc' = "done") => (k = Len(data) /\ k' = k)

SinglePass ==
    /\ []SinglePassState
    /\ [][SinglePassStep]_vars
    /\ (pc # "done") ~> (pc = "done")

SinglePassWitness ==
    /\ Returned /\ fn = "decode_unsafe"
    /\ result.kind = "Ok"
    /\ i = Len(data)
    /\ Len(data) = 2 * FullMarker
    /\ output_pos = 2 * ChunkSpan

====
